---------------------------- MODULE Spec2Model ----------------------------
(***************************************************************************)
(* Cascading region filter (src/src/FilterPage.tsx): the selection kept in *)
(* the URL query (province / regency / district), the values derived from  *)
(* it and the loaded dataset, and the three timed loading flags.           *)
(*                                                                         *)
(* JavaScript values are represented as follows.                           *)
(*   string     a sequence of one-character strings, <<"1","0">> is "10"   *)
(*   null       the value null (what URLSearchParams.get gives for a       *)
(*              missing key)                                               *)
(*   number     a record [nan |-> BOOLEAN, val |-> Int]                    *)
(*   undefined  the value undefined (what find(...)?.name gives when       *)
(*              nothing is found)                                          *)
(***************************************************************************)
EXTENDS Integers, Sequences, FiniteSets, TLC

VARIABLES
    phase,         \* "loading": the route loader runs; "mounted"; "unmounted"
    data,          \* useLoaderData(): the RegionData the loader resolved to
    searchParams,  \* the URL query: a function from the keys present to strings
    loading,       \* per level: the `loading` state of its useTimedLoading
    timeout,       \* per level: NoTimeout, or the ms elapsed since setTimeout
    pending,       \* per level: the timeouts set and neither run nor cleared
    sinceStart,    \* per level: while loading, ms elapsed since the last start()
    view,          \* the values the last render derived
    lastEvent      \* the last step taken, with the state it was taken in

vars ==
    <<phase, data, searchParams, loading, timeout, pending, sinceStart, view, lastEvent>>

----------------------------------------------------------------------------
(* Bounds of the model *)

\* Datasets hold at most this many entities in all
MaxEntities == 3

\* The clock advances in steps of delay / TicksPerDelay, rounded up
TicksPerDelay == 2

\* useTimedLoading(delay = 500)
delay == 500

TickMs == (delay + TicksPerDelay - 1) \div TicksPerDelay

\* The ids the entities of a dataset draw from
Ids == {0, 10}

\* The names of the entities, by position within their level
ProvNames == <<"P1", "P2", "P3", "P4", "P5">>

RegNames == <<"R1", "R2", "R3", "R4", "R5">>

DistNames == <<"D1", "D2", "D3", "D4", "D5">>

Keys == {"province", "regency", "district"}

null == <<"null">>

undefined == "undefined"

NoTimeout == -1

\* Query values a hand-written or shared link may hold: empty, ids, malformed
UrlStrings == {<<>>, <<"0">>, <<"1", "0">>, <<"a">>}

\* The values an <option> of a control may carry: "" or an id as a string
OptionValues == {<<>>, <<"0">>, <<"1", "0">>}

----------------------------------------------------------------------------
(* JavaScript primitives *)

Digits == <<"0", "1", "2", "3", "4", "5", "6", "7", "8", "9">>

DigitChars == {Digits[i] : i \in 1..10}

DigitValue(c) == (CHOOSE i \in 1..10 : Digits[i] = c) - 1

RECURSIVE NatToStr(_)
NatToStr(n) ==
    IF n < 10 THEN <<Digits[n + 1]>>
    ELSE Append(NatToStr(n \div 10), Digits[(n % 10) + 1])

\* String(n) of an integer n, as React writes an option's value={r.id}
IntToStr(n) == IF n < 0 THEN <<"-">> \o NatToStr(0 - n) ELSE NatToStr(n)

RECURSIVE DigitsToNat(_)
DigitsToNat(s) ==
    IF s = <<>> THEN 0
    ELSE 10 * DigitsToNat(SubSeq(s, 1, Len(s) - 1)) + DigitValue(s[Len(s)])

IsDigits(s) == Len(s) > 0 /\ \A i \in 1..Len(s) : s[i] \in DigitChars

NaN == [nan |-> TRUE, val |-> 0]

Num(n) == [nan |-> FALSE, val |-> n]

\* Number that knows no sign
NumberUnsigned(v) ==
    IF v = null THEN Num(0)
    ELSE IF v = <<>> THEN Num(0)
    ELSE IF IsDigits(v) THEN Num(DigitsToNat(v))
    ELSE NaN

\* Number(v) for v null or a string over digits, "-" and letters:
\* Number(null) = 0, Number("") = 0, a decimal numeral is its value,
\* anything else is NaN
Number(v) ==
    IF v = null THEN Num(0)
    ELSE IF v = <<>> THEN Num(0)
    ELSE IF IsDigits(v) THEN Num(DigitsToNat(v))
    ELSE IF Head(v) = "-" /\ IsDigits(Tail(v)) THEN Num(0 - DigitsToNat(Tail(v)))
    ELSE NaN

\* x === n for an integer x and a number n: NaN equals nothing
StrictEq(x, n) == ~n.nan /\ x = n.val

\* !v for v null or a string
Falsy(v) == v = null \/ v = <<>>

----------------------------------------------------------------------------
(* URLSearchParams *)

\* searchParams.get(key)
Get(sp, key) == IF key \in DOMAIN sp THEN sp[key] ELSE null

\* newParams.set(key, val)
Set(sp, key, val) == [k \in (DOMAIN sp) \cup {key} |-> IF k = key THEN val ELSE sp[k]]

\* newParams.delete(key)
Delete(sp, key) == [k \in (DOMAIN sp) \ {key} |-> sp[k]]

EmptyParams == [k \in {} |-> <<>>]

\* Every query over the three keys with values in S
ParamsOver(S) == UNION {[D -> S] : D \in SUBSET Keys}


----------------------------------------------------------------------------
(* RegionData and the route loader *)

EmptyData == [provinces |-> <<>>, regencies |-> <<>>, districts |-> <<>>]

Shapes ==
    {s \in (0..MaxEntities) \X (0..MaxEntities) \X (0..MaxEntities) :
        s[1] + s[2] + s[3] <= MaxEntities}

\* The datasets with s[1] provinces, s[2] regencies and s[3] districts
DatasetsOfShape(s) ==
    {[provinces |-> [i \in 1..s[1] |-> [id |-> p[i], name |-> ProvNames[i]]],
      regencies |-> [i \in 1..s[2] |->
                        [id |-> r[i][1], name |-> RegNames[i], province_id |-> r[i][2]]],
      districts |-> [i \in 1..s[3] |->
                        [id |-> d[i][1], name |-> DistNames[i], regency_id |-> d[i][2]]]] :
        p \in [1..s[1] -> Ids],
        r \in [1..s[2] -> Ids \X Ids],
        d \in [1..s[3] -> Ids \X Ids]}

Datasets == UNION {DatasetsOfShape(s) : s \in Shapes}

\* One province, its regency and that regency's district
ChainData ==
    [provinces |-> <<[id |-> 10, name |-> "P1"]>>,
     regencies |-> <<[id |-> 10, name |-> "R1", province_id |-> 10]>>,
     districts |-> <<[id |-> 0, name |-> "D1", regency_id |-> 10]>>]

FailureKinds == {"network_error", "bad_status", "parse_error"}

\* What the fetch of the loader may come to: fetch rejects, response.json()
\* rejects, response.ok is false (whatever the body), or the body of a
\* response that is ok parses to a dataset
FetchOutcomes(bodies) ==
    {[kind |-> k, body |-> EmptyData] : k \in {"network_error", "parse_error"}}
        \cup {[kind |-> k, body |-> b] : k \in {"ok", "bad_status"}, b \in bodies}

\* regionLoader without the test of response.ok
regionLoaderNoStatusCheck(outcome) ==
    IF outcome.kind \in {"ok", "bad_status"} THEN outcome.body ELSE EmptyData

regionLoader(outcome) ==
    IF outcome.kind = "ok" THEN outcome.body ELSE EmptyData

----------------------------------------------------------------------------
(* The values RegionFilter derives on each render *)

selectedProvId(sp) == Get(sp, "province")

selectedRegId(sp) == Get(sp, "regency")

selectedDistId(sp) == Get(sp, "district")

\* availableRegencies that compares the regency's own id
availableRegenciesById(d, sp) ==
    IF Falsy(selectedProvId(sp)) THEN <<>>
    ELSE SelectSeq(d.regencies,
                   LAMBDA r : StrictEq(r.id, Number(selectedProvId(sp))))

availableRegencies(d, sp) ==
    IF Falsy(selectedProvId(sp)) THEN <<>>
    ELSE SelectSeq(d.regencies,
                   LAMBDA r : StrictEq(r.province_id, Number(selectedProvId(sp))))

availableDistricts(d, sp) ==
    IF Falsy(selectedRegId(sp)) THEN <<>>
    ELSE SelectSeq(d.districts,
                   LAMBDA x : StrictEq(x.regency_id, Number(selectedRegId(sp))))

\* find with <= in place of ===
FindNameLoose(list, n) ==
    LET hits == {i \in 1..Len(list) : ~n.nan /\ list[i].id <= n.val}
    IN IF hits = {} THEN undefined
       ELSE list[CHOOSE i \in hits : \A j \in hits : i <= j].name

\* list.find((e) => e.id === n)?.name
FindName(list, n) ==
    LET hits == {i \in 1..Len(list) : StrictEq(list[i].id, n)}
    IN IF hits = {} THEN undefined
       ELSE list[CHOOSE i \in hits : \A j \in hits : i <= j].name

provName(d, sp) == FindName(d.provinces, Number(selectedProvId(sp)))

regName(d, sp) == FindName(d.regencies, Number(selectedRegId(sp)))

distName(d, sp) == FindName(d.districts, Number(selectedDistId(sp)))

Render(d, sp) ==
    [availableRegencies |-> availableRegencies(d, sp),
     availableDistricts |-> availableDistricts(d, sp),
     provName |-> provName(d, sp),
     regName |-> regName(d, sp),
     distName |-> distName(d, sp)]

NotRendered == [rendered |-> FALSE]

----------------------------------------------------------------------------
(* Initial state: the page is opened on some link and the loader runs *)

Event(op, val, outcome) ==
    [op |-> op, val |-> val, outcome |-> outcome, before |-> searchParams]

OpenedOn(links) ==
    /\ phase = "loading"
    /\ data = EmptyData
    /\ searchParams \in links
    /\ loading = [k \in Keys |-> FALSE]
    /\ timeout = [k \in Keys |-> NoTimeout]
    /\ pending = [k \in Keys |-> 0]
    /\ sinceStart = [k \in Keys |-> delay]
    /\ view = NotRendered
    /\ lastEvent = [op |-> "init", val |-> <<>>, outcome |-> "none",
                    before |-> searchParams]

\* The loader resolves and RegionFilter renders for the first time
Load(bodies) ==
    /\ phase = "loading"
    /\ \E o \in FetchOutcomes(bodies) :
        /\ data' = regionLoader(o)
        /\ view' = Render(regionLoader(o), searchParams)
        /\ lastEvent' = Event("load", <<>>, o.kind)
    /\ phase' = "mounted"
    /\ UNCHANGED <<searchParams, loading, timeout, pending, sinceStart>>

----------------------------------------------------------------------------
(* useTimedLoading *)

Min(a, b) == IF a < b THEN a ELSE b

\* An effect that sets no timeout
TimeoutNeverSet(l) == timeout

\* The timers after start() at level l. setLoading(true) changes the state
\* only when loading was false; the effect depends on [loading, delay] and
\* so runs, and sets a timeout, only on that change.
TimeoutAfterStart(l) ==
    IF loading[l] THEN timeout ELSE [timeout EXCEPT ![l] = 0]

\* start() whose effect sets a timeout on every call and clears none
startEveryCall(l) ==
    /\ loading' = [loading EXCEPT ![l] = TRUE]
    /\ timeout' = [timeout EXCEPT ![l] = 0]
    /\ pending' = [pending EXCEPT ![l] = @ + 1]
    /\ sinceStart' = [sinceStart EXCEPT ![l] = 0]

\* start() at level l, followed by the effect of the render it causes
start(l) ==
    /\ loading' = [loading EXCEPT ![l] = TRUE]
    /\ timeout' = TimeoutAfterStart(l)
    /\ pending' = IF loading[l] THEN pending ELSE [pending EXCEPT ![l] = @ + 1]
    /\ sinceStart' = [sinceStart EXCEPT ![l] = 0]

\* TickMs of time pass
Tick ==
    /\ \E l \in Keys :
         \/ timeout[l] # NoTimeout /\ timeout[l] < delay
         \/ phase = "mounted" /\ loading[l] /\ sinceStart[l] < delay
    /\ timeout' = [l \in Keys |->
                     IF timeout[l] = NoTimeout THEN NoTimeout
                     ELSE Min(timeout[l] + TickMs, delay)]
    /\ sinceStart' = [l \in Keys |->
                        IF loading[l] THEN Min(sinceStart[l] + TickMs, delay)
                        ELSE sinceStart[l]]
    /\ lastEvent' = Event("tick", <<>>, "none")
    /\ UNCHANGED <<phase, data, searchParams, loading, pending, view>>

\* A timeout callback that sets every flag to false
TimeoutFiresAll(l) ==
    /\ timeout[l] # NoTimeout
    /\ timeout[l] >= delay
    /\ loading' = [k \in Keys |-> FALSE]
    /\ timeout' = [timeout EXCEPT ![l] = NoTimeout]
    /\ pending' = [pending EXCEPT ![l] = @ - 1]
    /\ sinceStart' = [sinceStart EXCEPT ![l] = delay]
    /\ lastEvent' = [op |-> "timeout", val |-> <<>>, outcome |-> "none",
                     before |-> searchParams]
    /\ UNCHANGED <<phase, data, searchParams, view>>

\* The timeout of level l is due and its callback runs: setLoading(false);
\* the effect of the next render returns at once. A timeout that was set
\* and not cleared runs whether or not the component is still there.
TimeoutFires(l) ==
    /\ timeout[l] # NoTimeout
    /\ timeout[l] >= delay
    /\ loading' = [loading EXCEPT ![l] = FALSE]
    /\ timeout' = [timeout EXCEPT ![l] = NoTimeout]
    /\ pending' = [pending EXCEPT ![l] = @ - 1]
    /\ sinceStart' = [sinceStart EXCEPT ![l] = delay]
    /\ lastEvent' = Event("timeout", <<>>, "none")
    /\ UNCHANGED <<phase, data, searchParams, view>>

\* A teardown whose effects return no cleanup
UnmountNoCleanup ==
    /\ phase = "mounted"
    /\ phase' = "unmounted"
    /\ lastEvent' = [op |-> "unmount", val |-> <<>>, outcome |-> "none",
                     before |-> searchParams]
    /\ UNCHANGED <<data, searchParams, loading, timeout, pending, sinceStart, view>>

\* RegionFilter is torn down: the cleanup of each effect that set a timeout
\* clears it
Unmount ==
    /\ phase = "mounted"
    /\ phase' = "unmounted"
    /\ timeout' = [l \in Keys |-> NoTimeout]
    /\ pending' = [l \in Keys |->
                     IF timeout[l] # NoTimeout THEN pending[l] - 1 ELSE pending[l]]
    /\ lastEvent' = Event("unmount", <<>>, "none")
    /\ UNCHANGED <<data, searchParams, loading, sinceStart, view>>

----------------------------------------------------------------------------
(* The handlers of RegionFilter *)

\* setSearchParams(next): the navigation to the new query, taken as done,
\* and the render that follows
setSearchParams(next) ==
    /\ searchParams' = next
    /\ view' = Render(data, next)

\* handleProvChange that copies the current query before setting the key
ProvChangeParamsKeep(sp, val) ==
    IF ~Falsy(val) THEN Set(sp, "province", val) ELSE EmptyParams

\* handleProvChange that, on the empty value, deletes only its own key
ProvChangeParamsOwnKey(sp, val) ==
    IF ~Falsy(val) THEN Set(EmptyParams, "province", val) ELSE Delete(sp, "province")

\* What handleProvChange passes to setSearchParams
ProvChangeParams(sp, val) ==
    IF ~Falsy(val) THEN Set(EmptyParams, "province", val) ELSE EmptyParams

\* handleRegChange that leaves the district on a new regency
RegChangeParamsNoClear(sp, val) ==
    IF ~Falsy(val) THEN Set(sp, "regency", val)
    ELSE Delete(Delete(sp, "regency"), "district")

\* handleRegChange that, on the empty value, deletes only its own key
RegChangeParamsOwnKey(sp, val) ==
    IF ~Falsy(val) THEN Delete(Set(sp, "regency", val), "district")
    ELSE Delete(sp, "regency")

\* What handleRegChange passes to setSearchParams
RegChangeParams(sp, val) ==
    IF ~Falsy(val) THEN Delete(Set(sp, "regency", val), "district")
    ELSE Delete(Delete(sp, "regency"), "district")

\* handleDistChange that builds the query anew, as handleProvChange does
DistChangeParamsAnew(sp, val) ==
    IF ~Falsy(val) THEN Set(EmptyParams, "district", val) ELSE Delete(sp, "district")

\* handleDistChange that sets the key whatever the value
DistChangeParamsSetAlways(sp, val) == Set(sp, "district", val)

\* What handleDistChange passes to setSearchParams
DistChangeParams(sp, val) ==
    IF ~Falsy(val) THEN Set(sp, "district", val) ELSE Delete(sp, "district")

\* handleReset that keeps the province
ResetParamsKeepProvince(sp) == Delete(Delete(sp, "regency"), "district")

\* What handleReset passes to setSearchParams
ResetParams(sp) == EmptyParams

handleProvChange(val) ==
    /\ phase = "mounted"
    /\ start("province")
    /\ setSearchParams(ProvChangeParams(searchParams, val))
    /\ lastEvent' = Event("handleProvChange", val, "none")
    /\ UNCHANGED <<phase, data>>

\* handleRegChange that starts the province flag
handleRegChangeWrongFlag(val) ==
    /\ phase = "mounted"
    /\ start("province")
    /\ setSearchParams(RegChangeParams(searchParams, val))
    /\ lastEvent' = [op |-> "handleRegChange", val |-> val, outcome |-> "none",
                     before |-> searchParams]
    /\ UNCHANGED <<phase, data>>

handleRegChange(val) ==
    /\ phase = "mounted"
    /\ start("regency")
    /\ setSearchParams(RegChangeParams(searchParams, val))
    /\ lastEvent' = Event("handleRegChange", val, "none")
    /\ UNCHANGED <<phase, data>>

handleDistChange(val) ==
    /\ phase = "mounted"
    /\ start("district")
    /\ setSearchParams(DistChangeParams(searchParams, val))
    /\ lastEvent' = Event("handleDistChange", val, "none")
    /\ UNCHANGED <<phase, data>>

handleReset ==
    /\ phase = "mounted"
    /\ setSearchParams(ResetParams(searchParams))
    /\ lastEvent' = Event("handleReset", <<>>, "none")
    /\ UNCHANGED <<phase, data, loading, timeout, pending, sinceStart>>

----------------------------------------------------------------------------
(* The page, opened on a link that holds ids: any handler may be called    *)
(* with any option value                                                   *)

Init == OpenedOn(ParamsOver(OptionValues \ {<<>>}))

LoadPage == Load({ChainData})

ProvChange == \E val \in OptionValues : handleProvChange(val)

RegChange == \E val \in OptionValues : handleRegChange(val)

DistChange == \E val \in OptionValues : handleDistChange(val)

Timeout == \E l \in Keys : TimeoutFires(l)

Next ==
    \/ LoadPage
    \/ ProvChange
    \/ RegChange
    \/ DistChange
    \/ handleReset
    \/ Tick
    \/ Timeout
    \/ Unmount

Spec == Init /\ [][Next]_vars

(* The page opened on the bare address, under an event loop that lets time *)
(* pass and runs a timeout that is due                                     *)

InitFresh == OpenedOn({EmptyParams})

\* The option values of a dataset whose entities all have id 10
FewValues == {<<>>, <<"1", "0">>}

ProvChangeFew == \E val \in FewValues : handleProvChange(val)

RegChangeFew == \E val \in FewValues : handleRegChange(val)

DistChangeFew == \E val \in FewValues : handleDistChange(val)

NextLive ==
    \/ LoadPage
    \/ ProvChangeFew
    \/ RegChangeFew
    \/ DistChangeFew
    \/ handleReset
    \/ Tick
    \/ Timeout
    \/ Unmount

SpecLive ==
    /\ InitFresh
    /\ [][NextLive]_vars
    /\ WF_vars(Tick)
    /\ \A l \in Keys : WF_vars(TimeoutFires(l))

(* The page opened on the bare address: any handler, any option value *)

SpecFresh == InitFresh /\ [][Next]_vars

(* The controls as the user finds them, over any dataset: a control that   *)
(* is disabled fires nothing, and a control fires with the empty option or *)
(* one of the options rendered                                             *)

LoadAny == Load(Datasets)

OptionsOf(list) == {<<>>} \cup {IntToStr(list[i].id) : i \in 1..Len(list)}

SelectProvince ==
    \E val \in OptionsOf(data.provinces) : handleProvChange(val)

SelectRegency ==
    /\ phase = "mounted"
    /\ ~Falsy(selectedProvId(searchParams))
    /\ \E val \in OptionsOf(view.availableRegencies) : handleRegChange(val)

SelectDistrict ==
    /\ phase = "mounted"
    /\ ~Falsy(selectedRegId(searchParams))
    /\ \E val \in OptionsOf(view.availableDistricts) : handleDistChange(val)

NextUI ==
    \/ LoadAny
    \/ SelectProvince
    \/ SelectRegency
    \/ SelectDistrict
    \/ handleReset

SpecUI == InitFresh /\ [][NextUI]_vars

(* The codec: the page is opened on the link that encodes a selection *)

\* The ids a selection may hold
CodecIds == {-10, -1, 0, 1, 9, 10, 11, 99, 100, 105}

SelectionStates == UNION {[D -> CodecIds] : D \in SUBSET Keys}

\* The query of a selection: each level chosen holds String(id)
Encode(S) == [k \in DOMAIN S |-> IntToStr(S[k])]

\* The selection RegionFilter reads from a query: a level is chosen when
\* its value is truthy, and its id is Number(value)
Decode(sp) ==
    [k \in {x \in DOMAIN sp : ~Falsy(sp[x]) /\ ~Number(sp[x]).nan} |->
        Number(sp[k]).val]

InitCodec == OpenedOn({Encode(S) : S \in SelectionStates})

NextCodec == LoadPage

SpecCodec == InitCodec /\ [][NextCodec]_vars

(* The derivation alone: the page is opened on any link over any dataset *)

InitDerive == OpenedOn(ParamsOver(UrlStrings))

NextDerive == LoadAny

SpecDerive == InitDerive /\ [][NextDerive]_vars

----------------------------------------------------------------------------
(* Properties *)

Has(sp, key) == key \in DOMAIN sp

HasAll(sp) == DOMAIN sp = Keys

After(op) == lastEvent.op = op

\* The integers a query value is compared against
IdRange == -1..11

\* The entities of a level in the loaded dataset, and the label rendered for it
LevelList(key) ==
    IF key = "province" THEN data.provinces
    ELSE IF key = "regency" THEN data.regencies
    ELSE data.districts

LevelLabel(key) ==
    IF key = "province" THEN view.provName
    ELSE IF key = "regency" THEN view.regName
    ELSE view.distName

\* C1 as stated: after handleProvChange with a non-empty value, province is
\* that value and the regency and district keys are what they were before.
C1_Original ==
    (After("handleProvChange") /\ lastEvent.val # <<>>) =>
        /\ Get(searchParams, "province") = lastEvent.val
        /\ Get(searchParams, "regency") = Get(lastEvent.before, "regency")
        /\ Get(searchParams, "district") = Get(lastEvent.before, "district")

\* C1 (amended): after handleProvChange with a non-empty value, province is
\* that value and it is the only key of the query: regency and district are
\* removed whatever they were.
C1_SelectTopKeepsOnlyProvince ==
    (After("handleProvChange") /\ lastEvent.val # <<>>) =>
        /\ DOMAIN searchParams = {"province"}
        /\ searchParams["province"] = lastEvent.val

C1_Witness ==
    /\ After("handleProvChange")
    /\ lastEvent.val # <<>>
    /\ HasAll(lastEvent.before)
    /\ lastEvent.before["province"] # lastEvent.val

\* C2: after handleRegChange with a non-empty value, regency is that value,
\* district is absent and province is what it was before.
C2_SelectMidClearsDistrict ==
    (After("handleRegChange") /\ lastEvent.val # <<>>) =>
        /\ Get(searchParams, "regency") = lastEvent.val
        /\ ~Has(searchParams, "district")
        /\ Get(searchParams, "province") = Get(lastEvent.before, "province")

C2_Witness ==
    /\ After("handleRegChange")
    /\ lastEvent.val # <<>>
    /\ HasAll(lastEvent.before)
    /\ lastEvent.before["regency"] # lastEvent.val

\* C3 as stated: a loading flag goes from Active to Idle only when a full
\* delay has passed since the most recent start() of that flag.
C3_Original ==
    [][\A l \in Keys : (loading[l] /\ ~loading'[l]) => sinceStart[l] >= delay]_vars

\* C4 as stated: the label of a level whose key is absent from the query is
\* undefined, for every dataset (ids 0 included).
C4_Original ==
    phase = "mounted" =>
        \A key \in Keys : ~Has(searchParams, key) => LevelLabel(key) = undefined

\* C5: availableRegencies is the regencies whose province_id is the selected
\* province, in dataset order, and empty when province is absent; likewise
\* availableDistricts for regency_id and the selected regency.
C5_CandidatesAreChildren ==
    phase = "mounted" =>
        /\ ~Has(searchParams, "province") => view.availableRegencies = <<>>
        /\ ~Has(searchParams, "regency") => view.availableDistricts = <<>>
        /\ \A i \in IdRange :
            /\ Get(searchParams, "province") = IntToStr(i) =>
                 view.availableRegencies =
                     SelectSeq(data.regencies, LAMBDA r : r.province_id = i)
            /\ Get(searchParams, "regency") = IntToStr(i) =>
                 view.availableDistricts =
                     SelectSeq(data.districts, LAMBDA x : x.regency_id = i)

C5_Witness ==
    /\ phase = "mounted"
    /\ Get(searchParams, "province") = IntToStr(10)
    /\ Len(data.regencies) = 3
    /\ Len(view.availableRegencies) = 2
    /\ view.availableRegencies[2] = data.regencies[3]

\* C6: after handleRegChange with the empty value, regency and district are
\* absent and province is what it was before.
C6_ClearMidClearsDistrict ==
    (After("handleRegChange") /\ lastEvent.val = <<>>) =>
        /\ ~Has(searchParams, "regency")
        /\ ~Has(searchParams, "district")
        /\ Get(searchParams, "province") = Get(lastEvent.before, "province")

C6_Witness ==
    /\ After("handleRegChange")
    /\ lastEvent.val = <<>>
    /\ HasAll(lastEvent.before)
    /\ Has(searchParams, "province")

\* C7: after handleProvChange with the empty value, no key is left in the
\* query.
C7_ClearTopClearsAll ==
    (After("handleProvChange") /\ lastEvent.val = <<>>) =>
        DOMAIN searchParams = {}

C7_Witness ==
    /\ After("handleProvChange")
    /\ lastEvent.val = <<>>
    /\ HasAll(lastEvent.before)

\* C8: after handleReset no key is left in the query, whatever the query and
\* the loading flags were.
C8_ResetClearsAll ==
    After("handleReset") => DOMAIN searchParams = {}

C8_Witness ==
    /\ After("handleReset")
    /\ HasAll(lastEvent.before)
    /\ loading["province"]
    /\ ~loading["regency"]
    /\ loading["district"]

\* C9: after handleDistChange, district is absent (empty value) or the value
\* given, and province and regency are what they were before.
C9_SelectBottomOnly ==
    After("handleDistChange") =>
        /\ lastEvent.val = <<>> => ~Has(searchParams, "district")
        /\ lastEvent.val # <<>> => Get(searchParams, "district") = lastEvent.val
        /\ Get(searchParams, "province") = Get(lastEvent.before, "province")
        /\ Get(searchParams, "regency") = Get(lastEvent.before, "regency")

C9_Witness ==
    /\ After("handleDistChange")
    /\ lastEvent.val # <<>>
    /\ HasAll(lastEvent.before)
    /\ lastEvent.before["district"] # lastEvent.val

\* C10: when a level's key holds the decimal string of an integer i, the
\* label of the level is the name of the entity with id i if exactly one
\* entity of the level has it, and undefined if none has.
C10_LabelOfSelected ==
    phase = "mounted" =>
        \A key \in Keys : \A i \in IdRange :
            Get(searchParams, key) = IntToStr(i) =>
                LET hits == {n \in 1..Len(LevelList(key)) : LevelList(key)[n].id = i}
                IN /\ hits = {} => LevelLabel(key) = undefined
                   /\ Cardinality(hits) = 1 =>
                        \A n \in hits : LevelLabel(key) = LevelList(key)[n].name

C10_Witness ==
    /\ phase = "mounted"
    /\ Get(searchParams, "province") = IntToStr(10)
    /\ Len(data.provinces) = 2
    /\ data.provinces[1].id = 0
    /\ data.provinces[2].id = 10
    /\ view.provName = "P2"
    /\ Get(searchParams, "regency") = IntToStr(0)
    /\ view.regName = undefined

\* The handler that calls start() of a level
HandlerOf(l) ==
    IF l = "province" THEN "handleProvChange"
    ELSE IF l = "regency" THEN "handleRegChange"
    ELSE "handleDistChange"

\* C11: a loading flag that is Active goes Idle again, unless the component
\* is torn down or the flag is triggered again first.
C11_ActiveReturnsToIdle ==
    \A l \in Keys :
        (phase = "mounted" /\ loading[l]) ~>
            (~loading[l] \/ phase = "unmounted" \/ After(HandlerOf(l)))

C11_Witness ==
    /\ phase = "mounted"
    /\ After("timeout")
    /\ \A l \in Keys : ~loading[l]
    /\ HasAll(searchParams)

\* C12: teardown cancels every pending timeout, and after teardown no
\* timeout callback runs and no flag changes.
C12_TeardownCancelsTimers ==
    [][/\ phase' = "unmounted" =>
            \A l \in Keys : pending'[l] = 0 /\ timeout'[l] = NoTimeout
       /\ phase = "unmounted" =>
            /\ loading' = loading
            /\ lastEvent'.op # "timeout"]_vars

C12_Witness ==
    /\ phase = "unmounted"
    /\ After("unmount")
    /\ loading["province"]
    /\ sinceStart["province"] < delay
    /\ pending["province"] = 0

\* C13: a step in which a timeout callback runs sets one Active flag to
\* Idle and changes neither the query, the dataset, the derived values nor
\* the other two flags.
C13_TimeoutOnlyFlipsItsFlag ==
    [][lastEvent'.op = "timeout" =>
        /\ searchParams' = searchParams
        /\ data' = data
        /\ view' = view
        /\ \E l \in Keys :
            /\ loading[l]
            /\ loading' = [loading EXCEPT ![l] = FALSE]]_vars

C13_Witness ==
    /\ After("timeout")
    /\ HasAll(searchParams)
    /\ ~loading["province"]
    /\ loading["regency"]
    /\ loading["district"]

\* C19: a step of the handler of a level leaves that level's flag Active and
\* the other two flags as they were, and the level's key holds the value
\* given (or is absent, for the empty value) whether the flag was Idle or
\* Active before.
C19_EventArmsItsFlag ==
    [][\A l \in Keys :
        lastEvent'.op = HandlerOf(l) =>
            /\ loading' = [loading EXCEPT ![l] = TRUE]
            /\ Get(searchParams', l) =
                 IF lastEvent'.val = <<>> THEN null ELSE lastEvent'.val]_vars

C19_Witness ==
    /\ After("handleRegChange")
    /\ lastEvent.val # <<>>
    /\ Get(lastEvent.before, "regency") # lastEvent.val
    /\ Get(searchParams, "regency") = lastEvent.val
    /\ timeout["regency"] > 0
    /\ sinceStart["regency"] = 0
    /\ loading["province"]
    /\ ~loading["district"]

\* The flag of a level is Active while its component is there and its
\* loading state is true; a component torn down has no flag
Active(l) == phase = "mounted" /\ loading[l]

\* C20: in every reachable state, teardown included, a timeout is pending for
\* a level exactly when its flag is Active, and never more than one.
C20_OneTimerWhileActive ==
    \A l \in Keys :
        /\ pending[l] <= 1
        /\ pending[l] >= 1 <=> Active(l)
        /\ pending[l] >= 1 <=> timeout[l] # NoTimeout

C20_Witness ==
    /\ phase = "mounted"
    /\ After("handleProvChange")
    /\ timeout["province"] > 0
    /\ sinceStart["province"] = 0
    /\ pending["province"] = 1
    /\ loading["regency"]
    /\ pending["regency"] = 1

\* C14: from the bare address, whatever handlers are called, no key of
\* the query holds the empty string.
C14_NoEmptyValues ==
    \A k \in DOMAIN searchParams : searchParams[k] # <<>>

C14_Witness ==
    /\ After("handleDistChange")
    /\ lastEvent.val = <<>>
    /\ HasAll(lastEvent.before)
    /\ DOMAIN searchParams = {"province", "regency"}

C16_FailureGivesEmptyData ==
    /\ (After("load") /\ lastEvent.outcome \in FailureKinds) => data = EmptyData
    /\ (phase = "mounted" /\ data = EmptyData) =>
        /\ view.availableRegencies = <<>>
        /\ view.availableDistricts = <<>>
        /\ \A key \in Keys : LevelLabel(key) = undefined

C16_Witness ==
    /\ After("load")
    /\ lastEvent.outcome = "bad_status"
    /\ HasAll(searchParams)
    /\ searchParams["province"] = IntToStr(0)
    /\ view.provName = undefined

\* A value with a character that no numeral has
NonNumeric(v) ==
    /\ v # null
    /\ \E i \in 1..Len(v) : v[i] \notin DigitChars \cup {"-"}

\* C17 as stated: a level whose key holds a non-numeric value renders the
\* candidate list derived from it, and its label, as if the key were absent.
C17_Original ==
    phase = "mounted" =>
        \A key \in Keys :
            NonNumeric(Get(searchParams, key)) =>
                LET absent == Render(data, Delete(searchParams, key))
                IN /\ key = "province" =>
                        /\ view.availableRegencies = absent.availableRegencies
                        /\ view.provName = absent.provName
                   /\ key = "regency" =>
                        /\ view.availableDistricts = absent.availableDistricts
                        /\ view.regName = absent.regName
                   /\ key = "district" => view.distName = absent.distName

=============================================================================
